---- MODULE Spec2Model ----
(***************************************************************************)
(* Incremental inference metadata of gatsby                                *)
(* (packages/gatsby/src/schema/infer/inference-metadata.js).               *)
(*                                                                         *)
(* JavaScript values are records tagged by `kind`.  A JavaScript object    *)
(* whose own keys are enumerated by the code (a node, a descriptor, props, *)
(* nodes, fieldMap, an example object) is an ordered map                   *)
(* [keys |-> <<k1, ...>>, val |-> [k1 |-> v1, ...]] so that Object.keys    *)
(* returns the keys in insertion order.  A type-info and a metadata object *)
(* are records whose optional members are present only once assigned.      *)
(***************************************************************************)
EXTENDS Integers, Sequences, FiniteSets, TLC

VARIABLES meta, live, called, records, out

vars == <<meta, live, called, records, out>>

-----------------------------------------------------------------------------
(* JavaScript values *)

Undefined == [kind |-> "undefined"]
Null == [kind |-> "null"]
\* a number hi * 2^16 + lo (+ 1/2 when half)
Num(hi, lo, half) == [kind |-> "number", hi |-> hi, lo |-> lo, half |-> half]
Whole(n) == Num(0, n, FALSE)
Str(s) == [kind |-> "string", s |-> s]
Bool(b) == [kind |-> "boolean", b |-> b]
DateObj(iso) == [kind |-> "Date", iso |-> iso]
StringObj(s) == [kind |-> "String", s |-> s]
Arr(items) == [kind |-> "array", items |-> items]
Obj(keys, val) == [kind |-> "object", keys |-> keys, val |-> val]

EmptyObj == [keys |-> <<>>, val |-> <<>>]

ObjectKeys(o) == o.keys
Has(o, k) == k \in DOMAIN o.val
\* o[k]
Get(o, k) == IF Has(o, k) THEN o.val[k] ELSE Undefined
\* o[k] = v
Put(o, k, v) ==
  IF Has(o, k)
  THEN [o EXCEPT !.val[k] = v]
  ELSE [keys |-> Append(o.keys, k), val |-> (k :> v) @@ o.val]

\* r.f of a record with optional members
Member(r, f) == IF f \in DOMAIN r THEN r[f] ELSE Undefined
\* r.f = v
Assign(r, f, v) == (f :> v) @@ r

Range(s) == {s[i] : i \in DOMAIN s}

\* ToBoolean
Truthy(v) ==
  CASE v.kind \in {"undefined", "null"} -> FALSE
    [] v.kind = "string" -> v.s # ""
    [] v.kind = "boolean" -> v.b
    [] v.kind = "number" -> ~(v.hi = 0 /\ v.lo = 0 /\ ~v.half)
    [] OTHER -> TRUE

typeof(v) ==
  CASE v.kind \in {"number", "string", "boolean", "undefined"} -> v.kind
    [] OTHER -> "object"

-----------------------------------------------------------------------------
(* Helpers required from other files of the package *)

Int32Hi == 32768

\* (value | 0) === value
is32BitInteger(value) ==
  /\ ~value.half
  /\ value.hi >= -Int32Hi
  /\ value.hi < Int32Hi

DateLikeStrings == {"2018-01-01"}

looksLikeADate(value) == value.s \in DateLikeStrings

-----------------------------------------------------------------------------
(* Type classifier *)

NodeKeySuffixed == {"related___NODE"}

\* key.includes(`___NODE`)
includesNODE(key) == key \in NodeKeySuffixed

\* getType, were the length of an array not checked
getTypeOfArray(value, key) ==
  CASE typeof(value) = "number" ->
         IF is32BitInteger(value) THEN "int" ELSE "float"
    [] typeof(value) = "string" ->
         IF looksLikeADate(value) THEN "date" ELSE "string"
    [] typeof(value) = "boolean" -> "boolean"
    [] typeof(value) = "object" ->
         IF value.kind = "null" THEN "null"
         ELSE IF value.kind = "Date" THEN "date"
         ELSE IF value.kind = "String" THEN "string"
         ELSE IF value.kind = "array"
              THEN IF includesNODE(key) THEN "listOfUnion" ELSE "array"
         ELSE IF Len(ObjectKeys(value)) = 0 THEN "null"
         ELSE "object"
    [] OTHER -> "null"

getType(value, key) ==
  CASE typeof(value) = "number" ->
         IF is32BitInteger(value) THEN "int" ELSE "float"
    [] typeof(value) = "string" ->
         IF looksLikeADate(value) THEN "date" ELSE "string"
    [] typeof(value) = "boolean" -> "boolean"
    [] typeof(value) = "object" ->
         IF value.kind = "null" THEN "null"
         ELSE IF value.kind = "Date" THEN "date"
         ELSE IF value.kind = "String" THEN "string"
         ELSE IF value.kind = "array"
              THEN IF Len(value.items) = 0
                   THEN "null"
                   ELSE IF includesNODE(key) THEN "listOfUnion" ELSE "array"
         ELSE IF Len(ObjectKeys(value)) = 0 THEN "null"
         ELSE "object"
    [] OTHER -> "null"

-----------------------------------------------------------------------------
(* Descriptor updater *)

\* nodes[nodeId] = (nodes[nodeId] || 0) + delta, left to right over value;
\* the accumulator is <<nodes, dirty>>
RECURSIVE updateNodes(_, _, _, _)
updateNodes(acc, items, i, delta) ==
  IF i > Len(items) THEN acc
  ELSE LET id == items[i].s
           old == IF Has(acc[1], id) THEN acc[1].val[id] ELSE 0
           new == old + delta
       IN updateNodes(<<Put(acc[1], id, new),
                        acc[2] \/ new = 0 \/ new = 1>>,
                      items, i + 1, delta)

\* delta, were the operation compared with the wrong name
deltaOfDelete(operation) == IF operation = "delete" THEN -1 ELSE 1

\* delta, were its two values swapped
deltaSwapped(operation) == IF operation = "del" THEN 1 ELSE -1

\* const delta = operation === `del` ? -1 : 1
delta(operation) == IF operation = "del" THEN -1 ELSE 1

\* descriptor[typeName] || { total: 0 }
typeInfoOf(descriptor, typeName) ==
  IF Has(descriptor, typeName) THEN descriptor.val[typeName] ELSE [total |-> 0]

\* typeInfo.total === 1 || typeInfo.total === 0
structuralChange(typeInfo) == typeInfo.total = 1 \/ typeInfo.total = 0

\* firstOf, were `first` overwritten by every add
firstOfLast(typeInfo, operation, nodeId) ==
  LET first == Member(typeInfo, "first") IN
  IF operation = "add"
  THEN nodeId
  ELSE IF first = nodeId \/ typeInfo.total = 0 THEN Undefined ELSE first

\* the value assigned to typeInfo.first
firstOf(typeInfo, operation, nodeId) ==
  LET first == Member(typeInfo, "first") IN
  IF operation = "add"
  THEN IF Truthy(first) THEN first ELSE nodeId
  ELSE IF first = nodeId \/ typeInfo.total = 0 THEN Undefined ELSE first

\* exampleOf, were the stored example tested for truthiness
exampleOfTruthy(typeInfo, value) ==
  IF "example" \in DOMAIN typeInfo /\ Truthy(typeInfo.example)
  THEN typeInfo.example
  ELSE value

\* typeof typeInfo.example !== `undefined` ? typeInfo.example : value
exampleOf(typeInfo, value) ==
  IF "example" \in DOMAIN typeInfo /\ typeInfo.example # Undefined
  THEN typeInfo.example
  ELSE value

\* countEmpty, were `empty` incremented by deletes too
countEmptyOfAdd(typeInfo, value, d) ==
  IF value = Str("")
  THEN LET empty == IF "empty" \in DOMAIN typeInfo THEN typeInfo.empty ELSE 0
       IN Assign(typeInfo, "empty", empty + 1)
  ELSE typeInfo

\* countEmpty, were every string counted as empty
countEmptyOfString(typeInfo, value, d) ==
  LET empty == IF "empty" \in DOMAIN typeInfo THEN typeInfo.empty ELSE 0
  IN Assign(typeInfo, "empty", empty + d)

\* if (value === ``) typeInfo.empty = empty + delta
countEmpty(typeInfo, value, d) ==
  IF value = Str("")
  THEN LET empty == IF "empty" \in DOMAIN typeInfo THEN typeInfo.empty ELSE 0
       IN Assign(typeInfo, "empty", empty + d)
  ELSE typeInfo

RECURSIVE updateValueDescriptor(_, _, _, _, _)
RECURSIVE updateProps(_, _, _, _, _)
RECURSIVE updateItems(_, _, _, _, _, _)

\* updateProps, were `operation` not passed on, so that it defaults to `add`
RECURSIVE updatePropsOfAdd(_, _, _, _, _)
updatePropsOfAdd(acc, nodeId, value, i, operation) ==
  IF i > Len(ObjectKeys(value)) THEN acc
  ELSE LET key == ObjectKeys(value)[i]
           res == updateValueDescriptor(nodeId, key, value.val[key], "add",
                                        Get(acc[1], key))
       IN updatePropsOfAdd(<<Put(acc[1], key, res[1]), acc[2] \/ res[2]>>,
                           nodeId, value, i + 1, operation)

\* Object.keys(value).forEach(...) of the `object` case;
\* the accumulator is <<props, dirty>>
updateProps(acc, nodeId, value, i, operation) ==
  IF i > Len(ObjectKeys(value)) THEN acc
  ELSE LET key == ObjectKeys(value)[i]
           res == updateValueDescriptor(nodeId, key, value.val[key], operation,
                                        Get(acc[1], key))
       IN updateProps(<<Put(acc[1], key, res[1]), acc[2] \/ res[2]>>,
                      nodeId, value, i + 1, operation)

\* the `array` case, were only value[0] passed to the updater
updateItemsOfHead(acc, nodeId, key, value, i, operation) ==
  LET res == updateValueDescriptor(nodeId, key, value.items[1], operation, acc[1])
  IN <<res[1], acc[2] \/ res[2]>>

\* value.forEach(...) of the `array` case;
\* the accumulator is <<typeInfo.item, dirty>>
updateItems(acc, nodeId, key, value, i, operation) ==
  IF i > Len(value.items) THEN acc
  ELSE LET res == updateValueDescriptor(nodeId, key, value.items[i], operation,
                                        acc[1])
       IN updateItems(<<res[1], acc[2] \/ res[2]>>,
                      nodeId, key, value, i + 1, operation)

updateValueDescriptor(nodeId, key, value, operation, descriptorArg) ==
  LET descriptor == IF descriptorArg = Undefined THEN EmptyObj ELSE descriptorArg
      typeName == getType(value, key)
  IN
  IF typeName = "null" THEN <<descriptor, FALSE>>
  ELSE
  LET typeInfo0 == typeInfoOf(descriptor, typeName)
      typeInfo1 == [typeInfo0 EXCEPT !.total = @ + delta(operation)]
      dirty == structuralChange(typeInfo1)
      typeInfo2 ==
        IF operation \in {"add", "del"}
        THEN Assign(typeInfo1, "first", firstOf(typeInfo1, operation, nodeId))
        ELSE typeInfo1
      res ==
        CASE typeName = "object" ->
               LET props == IF "props" \in DOMAIN typeInfo2
                            THEN typeInfo2.props
                            ELSE EmptyObj
                   r == updateProps(<<props, dirty>>, nodeId, value, 1, operation)
               IN <<Assign(typeInfo2, "props", r[1]), r[2]>>
          [] typeName = "array" ->
               LET r == updateItems(<<Member(typeInfo2, "item"), dirty>>,
                                    nodeId, key, value, 1, operation)
               IN <<Assign(typeInfo2, "item", r[1]), r[2]>>
          [] typeName = "listOfUnion" ->
               LET nodes == IF "nodes" \in DOMAIN typeInfo2
                            THEN typeInfo2.nodes
                            ELSE EmptyObj
                   r == updateNodes(<<nodes, dirty>>, value.items, 1,
                                    delta(operation))
               IN <<Assign(typeInfo2, "nodes", r[1]), r[2]>>
          [] typeName = "string" ->
               LET typeInfo3 == countEmpty(typeInfo2, value, delta(operation))
               IN <<Assign(typeInfo3, "example", exampleOf(typeInfo3, value)),
                    dirty>>
          [] OTHER ->
               <<Assign(typeInfo2, "example", exampleOf(typeInfo2, value)), dirty>>
  IN <<Put(descriptor, typeName, res[1]), res[2]>>

-----------------------------------------------------------------------------
(* Node operations *)

\* Object.keys(node).filter(key => !ignoredFields.has(key))
nodeFields(node, ignoredFields) ==
  SelectSeq(ObjectKeys(node), LAMBDA key : key \notin ignoredFields)

\* nodeFields(...).forEach(...); the accumulator is <<fieldMap, structureChanged>>
RECURSIVE updateFields(_, _, _, _, _)
updateFields(acc, fields, i, operation, node) ==
  IF i > Len(fields) THEN acc
  ELSE LET field == fields[i]
           res == updateValueDescriptor(Get(node, "id"), field, node.val[field],
                                        operation, Get(acc[1], field))
       IN updateFields(<<Put(acc[1], field, res[1]), acc[2] \/ res[2]>>,
                       fields, i + 1, operation, node)

\* the body of updateTypeMetadata past the check of metadata.ignored
updateFieldMap(metadata, operation, node) ==
  LET ignoredFields == IF "ignoredFields" \in DOMAIN metadata
                       THEN metadata.ignoredFields
                       ELSE {}
      fieldMap == IF "fieldMap" \in DOMAIN metadata
                  THEN metadata.fieldMap
                  ELSE EmptyObj
      dirty == IF "dirty" \in DOMAIN metadata THEN metadata.dirty ELSE FALSE
      r == updateFields(<<fieldMap, FALSE>>, nodeFields(node, ignoredFields), 1,
                        operation, node)
  IN Assign(Assign(metadata, "fieldMap", r[1]), "dirty", dirty \/ r[2])

\* updateTypeMetadata, were metadata.ignored checked for `add` only
updateTypeMetadataOfAdd(metadata, operation, node) ==
  IF Truthy(Member(metadata, "ignored")) /\ operation = "add"
  THEN metadata
  ELSE updateFieldMap(metadata, operation, node)

updateTypeMetadata(metadata, operation, node) ==
  IF Truthy(Member(metadata, "ignored"))
  THEN metadata
  ELSE updateFieldMap(metadata, operation, node)

ignore(metadata, set) == Assign(metadata, "ignored", Bool(set))

addNode(metadata, node) == updateTypeMetadata(metadata, "add", node)
deleteNode(metadata, node) == updateTypeMetadata(metadata, "del", node)

\* addNodes, were the records folded from the right
RECURSIVE addNodesFromRight(_, _)
addNodesFromRight(metadata, nodes) ==
  IF nodes = <<>> THEN metadata
  ELSE addNode(addNodesFromRight(metadata, Tail(nodes)), Head(nodes))

\* nodes.reduce(addNode, metadata)
RECURSIVE addNodes(_, _)
addNodes(metadata, nodes) ==
  IF nodes = <<>> THEN metadata
  ELSE addNodes(addNode(metadata, Head(nodes)), Tail(nodes))

-----------------------------------------------------------------------------
(* Type resolver *)

\* the total of a type of a descriptor is > 0
HasLive(descriptor, type) ==
  Has(descriptor, type) /\ descriptor.val[type].total > 0

\* isMixedNumber, were more than one int required
isMixedNumberOfInts(descriptor) ==
  /\ HasLive(descriptor, "float")
  /\ Has(descriptor, "int")
  /\ descriptor.val["int"].total > 1

isMixedNumber(descriptor) ==
  HasLive(descriptor, "float") /\ HasLive(descriptor, "int")

isMixOfDateAndString(descriptor) ==
  HasLive(descriptor, "date") /\ HasLive(descriptor, "string")

\* string && string.empty === string.total
hasOnlyEmptyStrings(descriptor) ==
  /\ Has(descriptor, "string")
  /\ "empty" \in DOMAIN descriptor.val["string"]
  /\ descriptor.val["string"].empty = descriptor.val["string"].total

\* possibleTypes, were a total of 0 let through
possibleTypesOfZero(descriptor) ==
  SelectSeq(ObjectKeys(descriptor), LAMBDA type : descriptor.val[type].total >= 0)

possibleTypes(descriptor) ==
  SelectSeq(ObjectKeys(descriptor), LAMBDA type : descriptor.val[type].total > 0)

\* <<type, conflicts>>
resolveWinnerType(descriptor) ==
  LET candidates == possibleTypes(descriptor) IN
  IF Len(candidates) = 1 THEN <<candidates[1], FALSE>>
  ELSE IF Len(candidates) = 2 /\ isMixedNumber(descriptor)
  THEN <<"float", FALSE>>
  ELSE IF Len(candidates) = 2 /\ isMixOfDateAndString(descriptor)
  THEN <<IF hasOnlyEmptyStrings(descriptor) THEN "date" ELSE "string", FALSE>>
  ELSE IF Len(candidates) > 1 THEN <<"null", TRUE>>
  ELSE <<"null", FALSE>>

-----------------------------------------------------------------------------
(* Conflict example preparer and example builder *)

\* the own keys that are array indices, which Object.keys lists first and
\* in ascending order
IndexKeys == <<"1", "2", "3">>

OwnKeysInOrder(keys) ==
  SelectSeq(IndexKeys, LAMBDA k : k \in Range(keys))
    \o SelectSeq(keys, LAMBDA k : k \notin Range(IndexKeys))

\* [...].join(`,`)
RECURSIVE join(_)
join(strs) ==
  IF strs = <<>> THEN ""
  ELSE IF Len(strs) = 1 THEN strs[1]
  ELSE strs[1] \o "," \o join(Tail(strs))

\* the keys of _.groupBy(types, iteratee), in the order of their first use
RECURSIVE groupKeys(_, _)
groupKeys(iteratees, seen) ==
  IF iteratees = <<>> THEN seen
  ELSE groupKeys(Tail(iteratees),
                 IF Head(iteratees) \in Range(seen)
                 THEN seen
                 ELSE Append(seen, Head(iteratees)))

MapSeq(f(_), s) == [i \in DOMAIN s |-> f(s[i])]

\* typeNameMapper, were `int` left out of the list of the number types
typeNameMapperOfFloat(typeName) ==
  IF typeName = "listOfUnion" THEN "[string]"
  ELSE IF typeName \in {"float"} THEN "number"
  ELSE typeName

typeNameMapper(typeName) ==
  IF typeName = "listOfUnion" THEN "[string]"
  ELSE IF typeName \in {"float", "int"} THEN "number"
  ELSE typeName

\* liveNodes, were a count of 0 let through
liveNodesOfZero(nodes) ==
  Arr(MapSeq(Str, SelectSeq(ObjectKeys(nodes), LAMBDA key : nodes.val[key] >= 0)))

\* Object.keys(nodes).filter(key => nodes[key] > 0)
liveNodes(nodes) ==
  Arr(MapSeq(Str, SelectSeq(ObjectKeys(nodes), LAMBDA key : nodes.val[key] > 0)))

\* iteratee, were the types grouped by the `first` of one of them
iterateeOfHead(descriptor, type) ==
  LET first == Member(descriptor.val[ObjectKeys(descriptor)[1]], "first")
  IN IF Truthy(first) THEN first.s ELSE ""

\* type => descriptor[type].first || ``
iteratee(descriptor, type) ==
  LET first == Member(descriptor.val[type], "first")
  IN IF Truthy(first) THEN first.s ELSE ""

RECURSIVE buildExampleValue(_, _, _, _)
RECURSIVE buildProps(_, _, _, _, _)
RECURSIVE buildFields(_, _, _, _, _)
RECURSIVE getExampleObject(_, _, _)
RECURSIVE prepareConflictExamples(_, _)

prepareConflictExamples(descriptor, isArrayItem) ==
  LET reportedValueMapper(typeName) ==
        IF typeName = "listOfUnion"
        THEN liveNodes(descriptor.val["listOfUnion"].nodes)
        ELSE IF typeName = "object"
        THEN getExampleObject(descriptor.val["object"].props, typeName, FALSE)[1]
        ELSE IF typeName = "array"
        THEN LET itemValue ==
                   buildExampleValue(Member(descriptor.val["array"], "item"),
                                     FALSE, TRUE, "")[1]
             IN IF itemValue = Null \/ itemValue = Undefined
                THEN Arr(<<>>)
                ELSE Arr(<<itemValue>>)
        ELSE Member(descriptor.val[typeName], "example")
      conflictingTypes == possibleTypes(descriptor)
      groupOf(type) == iteratee(descriptor, type)
      group(nodeId) == SelectSeq(conflictingTypes, LAMBDA type : groupOf(type) = nodeId)
  IN
  IF isArrayItem
  THEN MapSeq(LAMBDA nodeId :
                [type |-> "[" \o join(MapSeq(typeNameMapper, group(nodeId))) \o "]",
                 value |-> Arr(MapSeq(reportedValueMapper, group(nodeId)))],
              OwnKeysInOrder(groupKeys(MapSeq(groupOf, conflictingTypes), <<>>)))
  ELSE MapSeq(LAMBDA type :
                [type |-> typeNameMapper(type), value |-> reportedValueMapper(type)],
              conflictingTypes)

\* Object.keys(props).reduce(...) of the `object` case;
\* the accumulator is <<acc, conflicts reported>>
buildProps(acc, props, i, rep, path) ==
  IF i > Len(ObjectKeys(props)) THEN acc
  ELSE LET prop == ObjectKeys(props)[i]
           res == buildExampleValue(props.val[prop], rep, FALSE, path \o "." \o prop)
       IN buildProps(<<IF res[1] # Null THEN Put(acc[1], prop, res[1]) ELSE acc[1],
                       acc[2] \o res[2]>>,
                     props, i + 1, rep, path)

\* <<example value, the calls of typeConflictReporter.addConflict in order>>;
\* rep: a typeConflictReporter is given
buildExampleValue(descriptorArg, rep, isArrayItem, path) ==
  LET descriptor == IF descriptorArg = Undefined THEN EmptyObj ELSE descriptorArg
      winner == resolveWinnerType(descriptor)
      type == winner[1]
      conflicts == winner[2]
      reported ==
        IF conflicts /\ rep
        THEN <<[path |-> path,
                examples |-> prepareConflictExamples(descriptor, isArrayItem)]>>
        ELSE <<>>
      typeInfo == Get(descriptor, type)
  IN
  CASE type = "null" -> <<Null, reported>>
    [] type \in {"date", "string"} ->
         IF isMixOfDateAndString(descriptor)
         THEN <<IF hasOnlyEmptyStrings(descriptor)
                THEN Str("1978-09-26")
                ELSE Str("String"),
                reported>>
         ELSE <<Member(typeInfo, "example"), reported>>
    [] type = "array" ->
         LET item == Member(typeInfo, "item")
             res == IF item # Undefined
                    THEN buildExampleValue(item, rep, TRUE, path)
                    ELSE <<Null, <<>>>>
         IN <<IF res[1] = Null THEN Null ELSE Arr(<<res[1]>>),
              reported \o res[2]>>
    [] type = "listOfUnion" ->
         <<liveNodes(IF "nodes" \in DOMAIN typeInfo THEN typeInfo.nodes ELSE EmptyObj),
           reported>>
    [] type = "object" ->
         LET res == buildProps(<<EmptyObj, <<>>>>, typeInfo.props, 1, rep, path)
         IN <<Obj(res[1].keys, res[1].val), reported \o res[2]>>
    [] OTHER -> <<Member(typeInfo, "example"), reported>>

\* Object.keys(fieldMap).reduce(...); the accumulator is <<acc, conflicts reported>>
buildFields(acc, fieldMap, i, typeName, rep) ==
  IF i > Len(ObjectKeys(fieldMap)) THEN acc
  ELSE LET key == ObjectKeys(fieldMap)[i]
           res == buildExampleValue(fieldMap.val[key], rep, FALSE,
                                    typeName \o "." \o key)
       IN buildFields(<<IF key # "" /\ res[1] # Null
                        THEN Put(acc[1], key, res[1])
                        ELSE acc[1],
                        acc[2] \o res[2]>>,
                      fieldMap, i + 1, typeName, rep)

getExampleObject(fieldMap, typeName, rep) ==
  LET res == buildFields(<<EmptyObj, <<>>>>, fieldMap, 1, typeName, rep)
  IN <<Obj(res[1].keys, res[1].val), res[2]>>

\* fieldMap.every(field => possibleTypes(fieldMap[field]).length === 0)
isEmpty(fieldMap) ==
  \A field \in Range(ObjectKeys(fieldMap)) :
    Len(possibleTypes(fieldMap.val[field])) = 0

-----------------------------------------------------------------------------
(* The records of the model *)

Node(keys, val) == [keys |-> keys, val |-> val]

\* const node1 = { id: '1', foo: 25, bar: 'str' }
Node1 == Node(<<"id", "foo", "bar">>,
              [id |-> Str("1"), foo |-> Whole(25), bar |-> Str("str")])
Node2 == Node(<<"id", "foo">>, [id |-> Str("2"), foo |-> Str("x")])
Node3 == Node(<<"id", "foo">>, [id |-> Str("1"), foo |-> Whole(1)])
Node4 == Node(<<"id", "foo", "flag">>,
              [id |-> Str("2"), foo |-> Num(0, 1, TRUE), flag |-> Bool(FALSE)])
Node5 == Node(<<"id", "foo">>, [id |-> Str("1"), foo |-> Str("2018-01-01")])
Node6 == Node(<<"id", "foo">>, [id |-> Str("2"), foo |-> Str("")])
Node7 == Node(<<"id", "foo">>, [id |-> Str("3"), foo |-> Whole(0)])
Node8 == Node(<<"id", "related___NODE">>,
              [id |-> Str("1"), related___NODE |-> Arr(<<Str("a"), Str("b")>>)])
Node9 == Node(<<"id", "related___NODE">>,
              [id |-> Str("2"), related___NODE |-> Arr(<<Str("a"), Str("a")>>)])
Node10 == Node(<<"id", "foo">>,
               [id |-> Str("1"), foo |-> Arr(<<Whole(5), Str("x")>>)])
Node11 == Node(<<"id", "foo">>, [id |-> Str("2"), foo |-> Arr(<<Whole(5)>>)])
Node12 == Node(<<"id", "foo">>,
               [id |-> Str("1"),
                foo |-> Obj(<<"a", "b">>, [a |-> Whole(1), b |-> Null])])
Node13 == Node(<<"id", "foo">>,
               [id |-> Str("2"),
                foo |-> Obj(<<"a", "c">>, [a |-> Str("s"), c |-> Arr(<<>>)])])
Node14 == Node(<<"id", "foo", "bar", "related___NODE", "baz">>,
               [id |-> Str("3"), foo |-> Null, bar |-> Arr(<<>>),
                related___NODE |-> Arr(<<>>), baz |-> Obj(<<>>, <<>>)])
Node15 == Node(<<"id", "foo", "bar", "big">>,
               [id |-> Str("3"), foo |-> DateObj("2019-05-05"),
                bar |-> StringObj("x"), big |-> Num(Int32Hi, 0, FALSE)])

Node16 == Node(<<"id", "foo", "bar", "baz">>,
               [id |-> Str("3"),
                foo |-> Arr(<<Null, Whole(5), Arr(<<>>), Undefined>>),
                bar |-> Undefined,
                baz |-> Obj(<<"a", "b">>,
                            [a |-> Obj(<<>>, <<>>), b |-> Undefined])])
Node17 == Node(<<"id", "foo">>, [id |-> Str("3"), foo |-> Arr(<<Str("x")>>)])

Nodes == <<Node1, Node2, Node3, Node4, Node5, Node6, Node7, Node8, Node9,
           Node10, Node11, Node12, Node13, Node14, Node15, Node16, Node17>>

NodeIx == 1..Len(Nodes)

\* the records one run of the ingestion pipeline adds and deletes
Feeds == {{1, 2, 4}, {3, 4, 7}, {2, 5, 6, 15}, {8, 9, 14}, {2, 10, 11},
          {12, 13, 14}, {1, 10, 12}, {10, 11, 17}, {13, 16}}

\* the runs in which the node type is ignored and un-ignored
IgnoreFeeds == {{1, 2}, {8, 12}}

\* the runs in which records that are not in the store are deleted
UnmatchedFeeds == {{3, 4}, {2, 6}, {8, 9}, {10, 12}}

\* at most this many records are in the store at a time
MaxLive == 3
\* at most this many deletes of a record exceed its counted adds
MaxDebt == 1

RECURSIVE SumUpTo(_, _)
SumUpTo(f, n) == IF n = 0 THEN 0 ELSE f[n] + SumUpTo(f, n - 1)
Size(bag) == SumUpTo([i \in NodeIx |-> IF bag[i] > 0 THEN bag[i] ELSE 0],
                     Len(Nodes))

-----------------------------------------------------------------------------
(* State machine *)

\* let meta = { ignoredFields: new Set(['id']) }
NewMetadata == [ignoredFields |-> {"id"}]

NoOut == [kind |-> "none"]

Ignored == Truthy(Member(meta, "ignored"))

InitWith(feeds) ==
  /\ meta = NewMetadata
  /\ live = [i \in NodeIx |-> 0]
  /\ called = [i \in NodeIx |-> 0]
  /\ records \in feeds
  /\ out = NoOut

Init == InitWith(Feeds)

InitIgnore == InitWith(IgnoreFeeds)

InitUnmatched == InitWith(UnmatchedFeeds)

\* meta = addNode(meta, Nodes[i])
AddNode(i) ==
  /\ Size(called) < MaxLive
  /\ Size(live) < MaxLive
  /\ meta' = addNode(meta, Nodes[i])
  /\ called' = [called EXCEPT ![i] = @ + 1]
  /\ live' = IF Ignored THEN live ELSE [live EXCEPT ![i] = @ + 1]
  /\ out' = NoOut
  /\ UNCHANGED records

\* meta = addNodes(meta, [Nodes[i], Nodes[j]])
AddNodes(i, j) ==
  /\ Size(called) + 2 <= MaxLive
  /\ Size(live) + 2 <= MaxLive
  /\ meta' = addNodes(meta, <<Nodes[i], Nodes[j]>>)
  /\ called' = [called EXCEPT ![i] = @ + 1, ![j] = @ + 1]
  /\ live' = IF Ignored THEN live ELSE [live EXCEPT ![i] = @ + 1, ![j] = @ + 1]
  /\ out' = NoOut
  /\ UNCHANGED records

\* meta = deleteNode(meta, Nodes[i])
DeleteNode(i) ==
  /\ meta' = deleteNode(meta, Nodes[i])
  /\ called' = [called EXCEPT ![i] = @ - 1]
  /\ live' = IF Ignored THEN live ELSE [live EXCEPT ![i] = @ - 1]
  /\ out' = NoOut
  /\ UNCHANGED records

\* meta = ignore(meta, set)
Ignore(set) ==
  /\ meta' = ignore(meta, set)
  /\ out' = NoOut
  /\ UNCHANGED <<live, called, records>>

TypeName == "T"

\* GetExampleObject, were the dirty flag cleared once the example is built
GetExampleObjectOfClean(rep) ==
  /\ out' = IF "fieldMap" \in DOMAIN meta
            THEN LET res == getExampleObject(meta.fieldMap, TypeName, rep)
                 IN [kind |-> "example", reporter |-> rep,
                     example |-> res[1], conflicts |-> res[2]]
            ELSE [kind |-> "TypeError", call |-> "getExampleObject"]
  /\ meta' = IF "fieldMap" \in DOMAIN meta
             THEN Assign(meta, "dirty", FALSE)
             ELSE meta
  /\ UNCHANGED <<live, called, records>>

\* out = getExampleObject({ ...meta, typeName, typeConflictReporter }), which
\* throws a TypeError on Object.keys(undefined)
GetExampleObject(rep) ==
  /\ out' = IF "fieldMap" \in DOMAIN meta
            THEN LET res == getExampleObject(meta.fieldMap, TypeName, rep)
                 IN [kind |-> "example", reporter |-> rep,
                     example |-> res[1], conflicts |-> res[2]]
            ELSE [kind |-> "TypeError", call |-> "getExampleObject"]
  /\ UNCHANGED <<meta, live, called, records>>

\* out = isEmpty(meta), which throws a TypeError on Object.keys(undefined)
IsEmpty ==
  /\ out' = IF "fieldMap" \in DOMAIN meta
            THEN [kind |-> "isEmpty", value |-> isEmpty(meta.fieldMap)]
            ELSE [kind |-> "TypeError", call |-> "isEmpty"]
  /\ UNCHANGED <<meta, live, called, records>>

\* the caller's protocol: the record a delete removes was added and counted
Matched(i) == called[i] > 0 /\ live[i] > 0

\* a delete follows a matching add call, counted or not
MatchedCall(i) == called[i] > 0 /\ live[i] > -MaxDebt

Next ==
  \/ \E i \in records : AddNode(i)
  \/ \E i, j \in records : AddNodes(i, j)
  \/ \E i \in records : Matched(i) /\ DeleteNode(i)
  \/ \E rep \in BOOLEAN : GetExampleObject(rep)
  \/ IsEmpty

Spec == Init /\ [][Next]_vars

NextIgnore ==
  \/ \E i \in records : AddNode(i)
  \/ \E i, j \in records : AddNodes(i, j)
  \/ \E i \in records : MatchedCall(i) /\ DeleteNode(i)
  \/ \E set \in BOOLEAN : Ignore(set)
  \/ \E rep \in BOOLEAN : GetExampleObject(rep)
  \/ IsEmpty

SpecIgnore == InitIgnore /\ [][NextIgnore]_vars

\* the caller deletes a record that it holds as added
Held(i) == called[i] > 0 /\ live[i] > -MaxDebt

\* the caller deletes a record that it does not hold as added
Absent(i) == called[i] = 0 /\ live[i] > -MaxDebt

\* meta = deleteNode(meta, Nodes[i]) with no matching addNode before
DeleteAbsent(i) ==
  /\ meta' = deleteNode(meta, Nodes[i])
  /\ live' = [live EXCEPT ![i] = @ - 1]
  /\ out' = NoOut
  /\ UNCHANGED <<called, records>>

NextUnmatched ==
  \/ \E i \in records : AddNode(i)
  \/ \E i, j \in records : AddNodes(i, j)
  \/ \E i \in records : Held(i) /\ DeleteNode(i)
  \/ \E i \in records : Absent(i) /\ DeleteAbsent(i)
  \/ \E rep \in BOOLEAN : GetExampleObject(rep)
  \/ IsEmpty

SpecUnmatched == InitUnmatched /\ [][NextUnmatched]_vars

-----------------------------------------------------------------------------
(* Vocabulary of the properties *)

FieldMapOf(metadata) ==
  IF "fieldMap" \in DOMAIN metadata THEN metadata.fieldMap ELSE EmptyObj

\* the type-infos of a descriptor and of everything nested in it, each with
\* its position: <<position, type, type-info>>
RECURSIVE TypeInfosIn(_, _)
TypeInfosIn(descriptor, position) ==
  UNION {
    LET typeInfo == descriptor.val[type] IN
      {<<position, type, typeInfo>>}
      \cup (IF "props" \in DOMAIN typeInfo
            THEN UNION {TypeInfosIn(typeInfo.props.val[prop],
                                    position \o <<type, prop>>) :
                        prop \in Range(ObjectKeys(typeInfo.props))}
            ELSE {})
      \cup (IF "item" \in DOMAIN typeInfo /\ typeInfo.item # Undefined
            THEN TypeInfosIn(typeInfo.item, position \o <<type, "[]">>)
            ELSE {})
    : type \in Range(ObjectKeys(descriptor))}

TypeInfos(fieldMap) ==
  UNION {TypeInfosIn(fieldMap.val[field], <<field>>) :
         field \in Range(ObjectKeys(fieldMap))}

\* the `total` counters that are not 0: <<position, type, total>>
Totals(fieldMap) ==
  {<<t[1], t[2], t[3].total>> : t \in {u \in TypeInfos(fieldMap) : u[3].total # 0}}

\* the values a record holds, each with its position and its type, counted
\* from the record itself
RECURSIVE Observations(_, _, _)
RECURSIVE ObservationsOfProps(_, _, _)
RECURSIVE ObservationsOfItems(_, _, _, _)

ObservationsOfProps(value, i, position) ==
  IF i > Len(ObjectKeys(value)) THEN <<>>
  ELSE Observations(value.val[ObjectKeys(value)[i]], ObjectKeys(value)[i],
                    position \o <<ObjectKeys(value)[i]>>)
         \o ObservationsOfProps(value, i + 1, position)

ObservationsOfItems(value, key, i, position) ==
  IF i > Len(value.items) THEN <<>>
  ELSE Observations(value.items[i], key, position \o <<"[]">>)
         \o ObservationsOfItems(value, key, i + 1, position)

Observations(value, key, position) ==
  LET type == getType(value, key) IN
  IF type = "null" THEN <<>>
  ELSE <<[position |-> position, type |-> type, value |-> value]>>
         \o (IF type = "object"
             THEN ObservationsOfProps(value, 1, position \o <<type>>)
             ELSE IF type = "array"
             THEN ObservationsOfItems(value, key, 1, position \o <<type>>)
             ELSE <<>>)

RECURSIVE ObservationsOfFields(_, _)
ObservationsOfFields(node, fields) ==
  IF fields = <<>> THEN <<>>
  ELSE Observations(node.val[Head(fields)], Head(fields), <<Head(fields)>>)
         \o ObservationsOfFields(node, Tail(fields))

ObservationsOf(node) ==
  ObservationsOfFields(node, nodeFields(node, NewMetadata.ignoredFields))

ObservationTable == [i \in NodeIx |-> ObservationsOf(Nodes[i])]

Positions ==
  UNION {{<<o.position, o.type>> : o \in Range(ObservationTable[i])} :
         i \in NodeIx}

\* how many values of a type a record holds at a position
Occurrences ==
  [i \in NodeIx |->
     [p \in Positions |->
        Cardinality({k \in DOMAIN ObservationTable[i] :
                       /\ ObservationTable[i][k].position = p[1]
                       /\ ObservationTable[i][k].type = p[2]})]]

\* how many values of a type the counted records hold at a position
LiveCount(position, type) ==
  SumUpTo([i \in NodeIx |-> live[i] * Occurrences[i][<<position, type>>]],
          Len(Nodes))

\* every `total` counter is >= 0
NonNegative == \A t \in TypeInfos(FieldMapOf(meta)) : t[3].total >= 0

\* a type-info whose total is back to 0 is kept in the field map
SomeResidue == \E t \in TypeInfos(FieldMapOf(meta)) : t[3].total = 0

-----------------------------------------------------------------------------
(* Properties *)

\* C1: for any metadata (not ignored) and any record, adding the record and
\* then deleting it brings every `total` counter, at every nesting level,
\* back to its value before the add (a counter that is absent counts as 0).
RoundTrip ==
  \A i \in NodeIx :
    ~Ignored =>
      Totals(FieldMapOf(deleteNode(addNode(meta, Nodes[i]), Nodes[i])))
        = Totals(FieldMapOf(meta))

\* Node12 was added to a metadata that counts Node13, and deleted again
RoundTripDone ==
  /\ meta = deleteNode(addNode(addNode(NewMetadata, Nodes[13]), Nodes[12]),
                       Nodes[12])
  /\ live[13] = 1
  /\ live[12] = 0
  /\ Totals(FieldMapOf(meta)) # {}
  /\ SomeResidue

\* C2: after any sequence of adds and of deletes that match a counted add,
\* each `total` equals the number of values of that type at that position
\* in the records that are added and not deleted; a type that is absent has
\* no such value.
ExactCounts ==
  Totals(FieldMapOf(meta))
    = {<<p[1], p[2], LiveCount(p[1], p[2])>> :
         p \in {q \in Positions : LiveCount(q[1], q[2]) # 0}}

\* two records with an array are counted and one record was deleted
ExactCountsDone ==
  /\ live[10] = 1
  /\ live[11] = 1
  /\ live[2] = 0
  /\ SomeResidue
  /\ <<<<"foo", "array", "[]">>, "int", 2>> \in Totals(FieldMapOf(meta))

\* C3 as stated: whenever every delete follows a matching add call that is
\* not yet deleted, every `total` is >= 0, whatever ignore calls are made.
NonNegativeUnderCalls == NonNegative

\* C3 amended: every `total` is >= 0 whenever no record has been deleted,
\* while the metadata was not ignored, more often than it was added while
\* the metadata was not ignored.
NonNegativeUnderCountedCalls == (\A i \in NodeIx : live[i] >= 0) => NonNegative

\* the metadata was ignored during some calls, is not ignored now, and
\* counts a record
CountedAfterIgnore ==
  /\ "ignored" \in DOMAIN meta
  /\ ~Ignored
  /\ called # live
  /\ \A i \in NodeIx : live[i] >= 0
  /\ Totals(FieldMapOf(meta)) # {}
  /\ SomeResidue

\* the members of a metadata that addNode and deleteNode write
Written(metadata) ==
  [f \in DOMAIN metadata \cap {"fieldMap", "dirty"} |-> metadata[f]]

\* C4: between ignore(m, true) and ignore(m, false), every addNode and
\* deleteNode call leaves fieldMap and dirty as they were.
StickyIgnore ==
  [][(Ignored /\ called' # called) => Written(meta') = Written(meta)]_vars

\* add and delete calls were made on an ignored metadata that has a field map
CalledWhileIgnored ==
  /\ Ignored
  /\ called # live
  /\ Totals(FieldMapOf(meta)) # {}

ScalarTypes == {"int", "float", "date", "string", "boolean"}

\* the types of a descriptor whose total is > 0, in the order of its keys
LiveTypes(descriptor) ==
  SelectSeq(ObjectKeys(descriptor), LAMBDA type : descriptor.val[type].total >= 1)

Candidates(descriptor) == Range(LiveTypes(descriptor))

\* more than one candidate, other than the two benign mixes
InConflict(descriptor) ==
  /\ Cardinality(Candidates(descriptor)) >= 2
  /\ Candidates(descriptor) # {"int", "float"}
  /\ Candidates(descriptor) # {"date", "string"}

\* the calls of addConflict made for a path by the last getExampleObject
ConflictsAt(path) == {k \in DOMAIN out.conflicts : out.conflicts[k].path = path}

PathOf(field) == TypeName \o "." \o field

\* the label under which a candidate type is reported
Label(type) ==
  CASE type \in {"int", "float"} -> "number"
    [] type = "listOfUnion" -> "[string]"
    [] OTHER -> type

\* C5: when two or more types of a top-level field have total > 0 and are
\* not exactly {int, float} or {date, string}, getExampleObject with a
\* reporter calls addConflict exactly once for the field, with the path
\* <typeName>.<field> and one alternative per candidate type (int and float
\* labelled `number`, the value being the stored example), and the example
\* object has no key for the field.
ConflictSurfaced ==
  (out.kind = "example" /\ out.reporter) =>
    \A field \in Range(ObjectKeys(meta.fieldMap)) :
      LET descriptor == meta.fieldMap.val[field]
          candidates == LiveTypes(descriptor)
      IN InConflict(descriptor) =>
           /\ Cardinality(ConflictsAt(PathOf(field))) = 1
           /\ \A k \in ConflictsAt(PathOf(field)) :
                /\ Len(out.conflicts[k].examples) = Len(candidates)
                /\ \A j \in DOMAIN candidates :
                     /\ out.conflicts[k].examples[j].type = Label(candidates[j])
                     /\ candidates[j] \in ScalarTypes =>
                          out.conflicts[k].examples[j].value
                            = descriptor.val[candidates[j]].example
           /\ ~Has(out.example, field)

\* { id: '1', foo: 25, bar: 'str' } and { id: '2', foo: 'x' } are counted and
\* getExampleObject has reported the conflict of foo
ConflictSurfacedDone ==
  /\ live[1] = 1
  /\ live[2] = 1
  /\ live[4] = 0
  /\ out.kind = "example"
  /\ out.reporter
  /\ out.conflicts
       = <<[path |-> "T.foo",
            examples |-> <<[type |-> "number", value |-> Whole(25)],
                           [type |-> "string", value |-> Str("x")]>>]>>
  /\ out.example = Obj(<<"bar">>, [bar |-> Str("str")])

\* the type of int and float that was recorded first at a descriptor
FirstNumberType(descriptor) ==
  SelectSeq(ObjectKeys(descriptor), LAMBDA type : type \in {"int", "float"})[1]

\* C6 as stated: when the only live types of a field are int and float, the
\* resolved type is float, no conflict is reported and the example value of
\* the field is the first numeric example recorded.
NumericWideningFirstExample ==
  out.kind = "example" =>
    \A field \in Range(ObjectKeys(meta.fieldMap)) :
      LET descriptor == meta.fieldMap.val[field] IN
      Candidates(descriptor) = {"int", "float"} =>
        /\ resolveWinnerType(descriptor) = <<"float", FALSE>>
        /\ ConflictsAt(PathOf(field)) = {}
        /\ Has(out.example, field)
        /\ out.example.val[field]
             = descriptor.val[FirstNumberType(descriptor)].example

\* C6 amended: when the only live types of a field are int and float, the
\* resolved type is float, no conflict is reported and the example value of
\* the field is the stored example of the float type, the first float
\* recorded (1.5 after { foo: 1 } and { foo: 1.5 }).
NumericWideningFloatExample ==
  out.kind = "example" =>
    \A field \in Range(ObjectKeys(meta.fieldMap)) :
      LET descriptor == meta.fieldMap.val[field] IN
      Candidates(descriptor) = {"int", "float"} =>
        /\ resolveWinnerType(descriptor) = <<"float", FALSE>>
        /\ ConflictsAt(PathOf(field)) = {}
        /\ Has(out.example, field)
        /\ out.example.val[field] = descriptor.val["float"].example

\* { foo: 1 } was added, then { foo: 1.5 }, and getExampleObject was called
NumericWideningDone ==
  /\ live[3] = 1
  /\ live[4] = 1
  /\ live[7] = 0
  /\ out.kind = "example"
  /\ out.reporter
  /\ ObjectKeys(meta.fieldMap.val["foo"]) = <<"int", "float">>
  /\ meta.fieldMap.val["foo"].val["int"].example = Whole(1)
  /\ out.example.val["foo"] = Num(0, 1, TRUE)
  /\ out.conflicts = <<>>

\* every string that the counted records hold at a top-level field is ``
OnlyEmptyStringsLive(field) ==
  \A i \in NodeIx :
    live[i] > 0 =>
      \A k \in DOMAIN ObservationTable[i] :
        (/\ ObservationTable[i][k].position = <<field>>
         /\ ObservationTable[i][k].type = "string")
          => ObservationTable[i][k].value = Str("")

\* C7: when the live types of a field are exactly date and string, the
\* resolver reports no conflict and the winner is date if and only if every
\* string the counted records hold at the field is the empty string, and
\* string otherwise.
DateStringMix ==
  \A field \in Range(ObjectKeys(FieldMapOf(meta))) :
    LET descriptor == meta.fieldMap.val[field] IN
    Candidates(descriptor) = {"date", "string"} =>
      resolveWinnerType(descriptor)
        = <<IF OnlyEmptyStringsLive(field) THEN "date" ELSE "string", FALSE>>

\* `x`, `` and a date were added and `x` was deleted: date wins
DateStringMixDone ==
  /\ live[2] = 0
  /\ live[5] = 1
  /\ live[6] = 1
  /\ Candidates(meta.fieldMap.val["foo"]) = {"date", "string"}
  /\ meta.fieldMap.val["foo"].val["string"].example = Str("x")
  /\ resolveWinnerType(meta.fieldMap.val["foo"]) = <<"date", FALSE>>

\* one type of the descriptor has total > 0 and another one is back to 0
Resolved(descriptor) ==
  /\ Len(LiveTypes(descriptor)) = 1
  /\ \E type \in Range(ObjectKeys(descriptor)) : descriptor.val[type].total = 0

\* C8 as stated: once every record of one of the conflicting types of a
\* field is deleted, the type whose total is 0 takes no part in the
\* resolution: getExampleObject reports no conflict for the field and the
\* example object has the field, with the stored example of the remaining
\* type.
DeleteResolvesConflict ==
  out.kind = "example" =>
    \A field \in Range(ObjectKeys(meta.fieldMap)) :
      LET descriptor == meta.fieldMap.val[field]
          type == LiveTypes(descriptor)[1]
      IN Resolved(descriptor) =>
           /\ resolveWinnerType(descriptor) = <<type, FALSE>>
           /\ ConflictsAt(PathOf(field)) = {}
           /\ Has(out.example, field)
           /\ type \in ScalarTypes =>
                out.example.val[field] = descriptor.val[type].example

\* C8 amended: the field resolves to the remaining type without conflict;
\* unless the remaining type is array, getExampleObject reports no conflict
\* for the field and the example object has the field, with the stored
\* example of the remaining type when that type is scalar.
DeleteResolvesConflictButArray ==
  out.kind = "example" =>
    \A field \in Range(ObjectKeys(meta.fieldMap)) :
      LET descriptor == meta.fieldMap.val[field]
          type == LiveTypes(descriptor)[1]
      IN Resolved(descriptor) =>
           /\ resolveWinnerType(descriptor) = <<type, FALSE>>
           /\ type # "array" =>
                /\ ConflictsAt(PathOf(field)) = {}
                /\ Has(out.example, field)
           /\ type \in ScalarTypes =>
                out.example.val[field] = descriptor.val[type].example

\* the header example: node1 and { foo: 'x' } were added, the second was
\* deleted, and the example is { foo: 25, bar: 'str' }
DeleteResolvesConflictDone ==
  /\ live[1] = 1
  /\ live[2] = 0
  /\ live[4] = 0
  /\ Has(meta.fieldMap.val["foo"], "string")
  /\ meta.fieldMap.val["foo"].val["string"].total = 0
  /\ out.kind = "example"
  /\ out.reporter
  /\ out.conflicts = <<>>
  /\ out.example.val = [foo |-> Whole(25), bar |-> Str("str")]

RelatedField == "related___NODE"

\* the ids the records of the model refer to
RelatedIds == {"a", "b"}

\* the `nodes` map of the listOfUnion type-info of the field
NodesOf(metadata) ==
  IF /\ Has(FieldMapOf(metadata), RelatedField)
     /\ Has(metadata.fieldMap.val[RelatedField], "listOfUnion")
  THEN metadata.fieldMap.val[RelatedField].val["listOfUnion"].nodes
  ELSE EmptyObj

\* how often a record refers to an id in the list of the field
References ==
  [i \in NodeIx |->
     [id \in RelatedIds |->
        IF Has(Nodes[i], RelatedField)
        THEN Cardinality({k \in DOMAIN Nodes[i].val[RelatedField].items :
                            Nodes[i].val[RelatedField].items[k] = Str(id)})
        ELSE 0]]

\* how often the counted records refer to an id
LiveReferences(id) ==
  SumUpTo([i \in NodeIx |-> live[i] * References[i][id]], Len(Nodes))

ListOfUnionCounts ==
  /\ \A id \in RelatedIds :
       /\ LiveReferences(id) > 0 => Has(NodesOf(meta), id)
       /\ Has(NodesOf(meta), id) => NodesOf(meta).val[id] = LiveReferences(id)
  /\ Range(ObjectKeys(NodesOf(meta))) \subseteq RelatedIds
  /\ out.kind = "example" =>
       /\ (/\ Has(meta.fieldMap, RelatedField)
           /\ Candidates(meta.fieldMap.val[RelatedField]) = {"listOfUnion"})
            => Has(out.example, RelatedField)
       /\ Has(out.example, RelatedField) =>
            /\ out.example.val[RelatedField].kind = "array"
            /\ Range(out.example.val[RelatedField].items)
                 = {Str(id) : id \in {r \in RelatedIds : LiveReferences(r) > 0}}
            /\ Len(out.example.val[RelatedField].items)
                 = Cardinality({r \in RelatedIds : LiveReferences(r) > 0})
  /\ (out.kind = "isEmpty" /\ \A i \in NodeIx : live[i] = 0) => out.value

\* C9: for a `___NODE` field, nodes[id] is the number of occurrences of id in
\* the lists of the counted records, an id whose occurrences are all deleted
\* stays in the map with count 0, the example value lists exactly the ids
\* whose count is > 0, and isEmpty is true once every record is deleted.
ListOfUnionLifecycle ==
  /\ []ListOfUnionCounts
  /\ [][Range(ObjectKeys(NodesOf(meta))) \subseteq Range(ObjectKeys(NodesOf(meta')))]_vars

\* ['a', 'b'] and ['a', 'a'] are counted and the example lists a and b
ListOfUnionExampleDone ==
  /\ live[8] = 1
  /\ live[9] = 1
  /\ NodesOf(meta).val = [a |-> 3, b |-> 1]
  /\ out.kind = "example"
  /\ out.example.val[RelatedField] = Arr(<<Str("a"), Str("b")>>)

\* { related___NODE: ['a', 'b'] } was added and deleted: nodes is
\* { a: 0, b: 0 } and isEmpty has returned true
ListOfUnionLifecycleDone ==
  /\ records = {8, 9, 14}
  /\ \A i \in NodeIx : live[i] = 0
  /\ NodesOf(meta) = [keys |-> <<"a", "b">>, val |-> [a |-> 0, b |-> 0]]
  /\ out = [kind |-> "isEmpty", value |-> TRUE]

\* a field map, a descriptor and a type-info without the order of their keys
RECURSIVE Unordered(_)
RECURSIVE UnorderedInfo(_)
Unordered(descriptor) ==
  [type \in Range(ObjectKeys(descriptor)) |-> UnorderedInfo(descriptor.val[type])]

UnorderedInfo(typeInfo) ==
  [f \in DOMAIN typeInfo |->
     CASE f = "props" ->
            [prop \in Range(ObjectKeys(typeInfo.props)) |->
               Unordered(typeInfo.props.val[prop])]
       [] f = "item" -> Unordered(typeInfo.item)
       [] f = "nodes" -> typeInfo.nodes.val
       [] OTHER -> typeInfo[f]]

UnorderedMap(fieldMap) ==
  [field \in Range(ObjectKeys(fieldMap)) |-> Unordered(fieldMap.val[field])]

\* the counters of a field map: total, empty and nodes at every position
Counters(fieldMap) ==
  {<<t[1], t[2], t[3].total,
     IF "empty" \in DOMAIN t[3] THEN <<t[3].empty>> ELSE <<>>,
     IF "nodes" \in DOMAIN t[3] THEN t[3].nodes.val ELSE <<>>>> :
   t \in TypeInfos(fieldMap)}

FieldsOf(i) == Range(nodeFields(Nodes[i], NewMetadata.ignoredFields))

\* two records that touch disjoint fields or the same fields
Consistent(i, j) == FieldsOf(i) \cap FieldsOf(j) = {} \/ FieldsOf(i) = FieldsOf(j)

AddedInOrder(i, j) == FieldMapOf(addNode(addNode(meta, Nodes[i]), Nodes[j]))

AddedAtOnce(i, j) == FieldMapOf(addNodes(meta, <<Nodes[i], Nodes[j]>>))

NothingLive(metadata) ==
  \A field \in Range(ObjectKeys(FieldMapOf(metadata))) :
    Candidates(metadata.fieldMap.val[field]) = {}

\* the last call was isEmpty(meta)
IsEmptyCalled ==
  \/ out.kind = "isEmpty"
  \/ out.kind = "TypeError" /\ out.call = "isEmpty"

\* C11: on every metadata reached from a new metadata by any sequence of
\* addNode, deleteNode and ignore calls, the empty sequence included,
\* isEmpty returns, and returns true if and only if no type-info of a
\* top-level field has total > 0.
IsEmptyIffNothingLive ==
  IsEmptyCalled => (out.kind = "isEmpty" /\ out.value = NothingLive(meta))

\* isEmpty has returned on a metadata that has a field map
IsEmptyOfFieldMap == out.kind = "isEmpty" => out.value = NothingLive(meta)

\* the resolver takes the type for a candidate at the position: its total
\* is > 0
CandidateAt(fieldMap, position, type) ==
  \E t \in TypeInfos(fieldMap) :
    t[1] = position /\ t[2] = type /\ t[3].total > 0

\* every value of every record that the step adds has its type among the
\* candidates of its position
AddedAreCandidates ==
  \A i \in NodeIx :
    called'[i] > called[i] =>
      \A k \in DOMAIN ObservationTable[i] :
        CandidateAt(FieldMapOf(meta'), ObservationTable[i][k].position,
                    ObservationTable[i][k].type)

\* C12: a deleteNode call with no matching addNode before it does not
\* propagate into later type resolution: after it, every type that has a
\* value added by a later addNode is among the candidates of the resolver
\* at the position of the value.
UnmatchedDeleteContained == [][AddedAreCandidates]_vars

\* the total of a type of a top-level field, 0 when the type is absent
TotalAt(metadata, field, type) ==
  IF /\ Has(FieldMapOf(metadata), field)
     /\ Has(metadata.fieldMap.val[field], type)
  THEN metadata.fieldMap.val[field].val[type].total
  ELSE 0

\* the structural change the updater reports for a field of a record
StructuralChangeOf(i, field, operation) ==
  updateValueDescriptor(Get(Nodes[i], "id"), field, Nodes[i].val[field],
                        operation, Get(FieldMapOf(meta), field))[2]

\* the type of a field of a record moves between total 0 and total 1
Appears(i, field) ==
  TotalAt(meta, field, getType(Nodes[i].val[field], field)) = 0

Disappears(i, field) ==
  TotalAt(meta, field, getType(Nodes[i].val[field], field)) = 1

ScalarFields(i) ==
  {field \in FieldsOf(i) : getType(Nodes[i].val[field], field) \in ScalarTypes}

\* the dirty flag an operation leaves on a metadata whose flag was cleared
DirtyAfter(operation, i) ==
  updateTypeMetadata(Assign(meta, "dirty", FALSE), operation, Nodes[i]).dirty

\* C13: for the update of one scalar value, the structural change the
\* updater reports, and the dirty flag it is OR-ed into, is true exactly
\* when the total of the type moves from 0 to 1 on add or from 1 to 0 on
\* delete; a delete that takes a total from 2 to 1 reports none.
StructuralChangeExact ==
  \A i \in NodeIx :
    /\ \A field \in ScalarFields(i) :
         /\ StructuralChangeOf(i, field, "add") = Appears(i, field)
         /\ live[i] > 0 =>
              StructuralChangeOf(i, field, "del") = Disappears(i, field)
    /\ ScalarFields(i) = FieldsOf(i) =>
         /\ DirtyAfter("add", i) = \E field \in FieldsOf(i) : Appears(i, field)
         /\ live[i] > 0 =>
              DirtyAfter("del", i) = \E field \in FieldsOf(i) : Disappears(i, field)

\* the statement of C13 for add alone
StructuralChangeOfAdd ==
  \A i \in NodeIx :
    \A field \in ScalarFields(i) :
      StructuralChangeOf(i, field, "add") = Appears(i, field)

\* the statement of C13 for delete, a total of 2 apart
StructuralChangeOfDelete ==
  \A i \in NodeIx :
    \A field \in ScalarFields(i) :
      (live[i] > 0 /\ TotalAt(meta, field, getType(Nodes[i].val[field], field)) # 2)
        => StructuralChangeOf(i, field, "del") = Disappears(i, field)

\* the stored examples of the scalar type-infos: <<position, type, example>>
Examples(fieldMap) ==
  {<<t[1], t[2], t[3].example>> :
     t \in {u \in TypeInfos(fieldMap) :
              u[2] \in ScalarTypes /\ "example" \in DOMAIN u[3]}}

\* every scalar type-info has an example
ExamplesSet ==
  \A t \in TypeInfos(FieldMapOf(meta)) :
    t[2] \in ScalarTypes =>
      ("example" \in DOMAIN t[3] /\ t[3].example # Undefined)

\* C14: every scalar type-info has an example, and once set the example is
\* never changed by a later addNode or deleteNode, also when it is falsy
\* (0, false, ``) and also after the record that supplied it is deleted or
\* the total is back to 0.
ExampleWriteOnce ==
  /\ []ExamplesSet
  /\ [][Examples(FieldMapOf(meta)) \subseteq Examples(FieldMapOf(meta'))]_vars

\* { foo: 0 } was added first and deleted, { foo: 1 } is counted, and the
\* example of int is still 0
ExampleWriteOnceDone ==
  /\ live[7] = 0
  /\ live[3] = 1
  /\ live[4] = 0
  /\ meta.fieldMap.val["foo"].val["int"].total = 1
  /\ meta.fieldMap.val["foo"].val["int"].example = Whole(0)

\* the type-infos of a type at a position, among <<position, type, type-info>>
InfosAt(infos, position, type) ==
  {t[3] : t \in {u \in infos : u[1] = position /\ u[2] = type}}

\* the `first` of the type-info of a type at a position
FirstAt(infos, position, type) ==
  IF InfosAt(infos, position, type) = {} THEN Undefined
  ELSE Member(CHOOSE typeInfo \in InfosAt(infos, position, type) : TRUE,
              "first")

\* the `total` of the type-info of a type at a position
TotalOf(infos, position, type) ==
  IF InfosAt(infos, position, type) = {} THEN 0
  ELSE (CHOOSE typeInfo \in InfosAt(infos, position, type) : TRUE).total

\* a type-info whose `first` is defined has total > 0
FirstImpliesLive ==
  \A t \in TypeInfos(FieldMapOf(meta)) :
    Member(t[3], "first") # Undefined => t[3].total > 0

\* on add, `first` becomes the id of the record only if it is unset
FirstOnAdd(i) ==
  LET before == TypeInfos(FieldMapOf(meta))
      after == TypeInfos(FieldMapOf(addNode(meta, Nodes[i])))
  IN \A p \in {q \in Positions : Occurrences[i][q] > 0} :
       FirstAt(after, p[1], p[2])
         = IF FirstAt(before, p[1], p[2]) # Undefined
           THEN FirstAt(before, p[1], p[2])
           ELSE Get(Nodes[i], "id")

\* on delete, `first` is cleared if it is the id of the record or if the
\* total has reached 0
FirstOnDelete(i) ==
  LET before == TypeInfos(FieldMapOf(meta))
      after == TypeInfos(FieldMapOf(deleteNode(meta, Nodes[i])))
  IN \A p \in {q \in Positions : Occurrences[i][q] > 0} :
       FirstAt(after, p[1], p[2])
         = IF \/ FirstAt(before, p[1], p[2]) = Get(Nodes[i], "id")
              \/ TotalOf(after, p[1], p[2]) = 0
           THEN Undefined
           ELSE FirstAt(before, p[1], p[2])

\* C15: on add, `first` is set to the id of the record only if it is unset;
\* on delete, `first` is cleared if it equals the id of the record removed
\* or if the total has reached 0; so in every state reached by adds and
\* matching deletes, a type-info whose `first` is defined has total > 0.
FirstAttribution ==
  /\ FirstImpliesLive
  /\ \A i \in records :
       /\ FirstOnAdd(i)
       /\ live[i] > 0 => FirstOnDelete(i)

\* { id: '1', foo: 1 } was added, then { id: '3', foo: 0 }, and the first
\* was deleted: `first` of int is cleared while its total is 1
FirstAttributionDone ==
  /\ live[3] = 0
  /\ live[7] = 1
  /\ live[4] = 0
  /\ meta.fieldMap.val["foo"].val["int"].example = Whole(1)
  /\ meta.fieldMap.val["foo"].val["int"].total = 1
  /\ meta.fieldMap.val["foo"].val["int"].first = Undefined

\* a value without structural information: null, undefined, [] or {}
NoInformation(value) ==
  \/ value.kind \in {"null", "undefined"}
  \/ value.kind = "array" /\ value.items = <<>>
  \/ value.kind = "object" /\ value.keys = <<>>

\* the type-infos at the positions that start with a prefix
InfosUnder(infos, prefix) ==
  {t \in infos :
     /\ Len(t[1]) >= Len(prefix)
     /\ SubSeq(t[1], 1, Len(prefix)) = prefix}

\* an array without its items that have no structural information
Informative(value) ==
  Arr(SelectSeq(value.items, LAMBDA item : ~NoInformation(item)))

\* the updater's result for a value at a field of a record
Updated(i, field, value, operation) ==
  updateValueDescriptor(Get(Nodes[i], "id"), field, value, operation,
                        Get(FieldMapOf(meta), field))

\* an operation on a record leaves the positions of the record's values
\* without structural information as they were
NullNoOp(i, operation) ==
  LET before == TypeInfos(FieldMapOf(meta))
      metadata == updateTypeMetadata(Assign(meta, "dirty", FALSE), operation,
                                     Nodes[i])
      after == TypeInfos(metadata.fieldMap)
  IN /\ \A field \in FieldsOf(i) :
          LET value == Nodes[i].val[field] IN
          /\ NoInformation(value) =>
               /\ InfosUnder(after, <<field>>) = InfosUnder(before, <<field>>)
               /\ ~Updated(i, field, value, operation)[2]
          /\ (value.kind = "object" /\ ~NoInformation(value)) =>
               \A prop \in Range(value.keys) :
                 NoInformation(value.val[prop]) =>
                   InfosUnder(after, <<field, "object", prop>>)
                     = InfosUnder(before, <<field, "object", prop>>)
          /\ (value.kind = "array" /\ Informative(value).items # <<>>) =>
               Updated(i, field, value, operation)
                 = Updated(i, field, Informative(value), operation)
     /\ (\A field \in FieldsOf(i) : NoInformation(Nodes[i].val[field])) =>
          /\ after = before
          /\ ~metadata.dirty

\* C16: adding or deleting a record whose field value is null, undefined,
\* an empty array or an empty object, at top level or nested in an object
\* or an array, changes no total, empty or nodes counter of the descriptor
\* of that position, introduces no type tag, and does not by itself report a
\* structural change or set dirty.
NullIsNoOp ==
  \A i \in records :
    /\ NullNoOp(i, "add")
    /\ live[i] > 0 => NullNoOp(i, "del")

\* { foo: [null, 5, [], undefined], bar: undefined, baz: { a: {}, b: undefined } }
\* is counted: bar and baz.a have a descriptor without type tag and the
\* items of foo have the type int alone
NullIsNoOpDone ==
  /\ live[16] = 1
  /\ meta.fieldMap.val["bar"] = EmptyObj
  /\ meta.fieldMap.val["baz"].val["object"].props.val["a"] = EmptyObj
  /\ ObjectKeys(meta.fieldMap.val["foo"].val["array"].item) = <<"int">>
  /\ meta.fieldMap.val["foo"].val["array"].item.val["int"].total = 1

\* the record a candidate type of a descriptor is attributed to, `` when
\* its `first` is unset
Attribution(descriptor, type) ==
  IF Member(descriptor.val[type], "first") = Undefined
  THEN ""
  ELSE descriptor.val[type].first.s

Attributions(descriptor) ==
  {Attribution(descriptor, type) : type \in Candidates(descriptor)}

\* the candidate types attributed to a record, in the order of the keys
AttributedTo(descriptor, nodeId) ==
  SelectSeq(LiveTypes(descriptor),
            LAMBDA type : Attribution(descriptor, type) = nodeId)

\* the alternative reported for the candidate types attributed to a record
Alternative(descriptor, nodeId) ==
  [type |-> "[" \o join(MapSeq(Label, AttributedTo(descriptor, nodeId))) \o "]",
   value |-> Arr(MapSeq(LAMBDA type : Member(descriptor.val[type], "example"),
                        AttributedTo(descriptor, nodeId)))]

\* the field is an array whose items are in conflict
ItemsInConflict(descriptor) ==
  /\ Candidates(descriptor) = {"array"}
  /\ Member(descriptor.val["array"], "item") # Undefined
  /\ InConflict(descriptor.val["array"].item)

\* C17: when the item descriptor of an array field is in conflict, the
\* alternatives reported are exactly one entry for every distinct `first`
\* attribution among the candidate item types, each entry combining the
\* candidate types of that attribution, so that every candidate type is in
\* exactly one entry: the types first seen in one record ({ foo: [5, 'x'] })
\* make one entry `[number,string]`, the types first seen in different
\* records ({ foo: [5] }, then { foo: ['x'] }) make separate entries.
ItemConflictGrouping ==
  (out.kind = "example" /\ out.reporter) =>
    /\ \A field \in Range(ObjectKeys(meta.fieldMap)) :
         LET descriptor == meta.fieldMap.val[field] IN
         ItemsInConflict(descriptor) =>
           LET item == descriptor.val["array"].item IN
           /\ Cardinality(ConflictsAt(PathOf(field))) = 1
           /\ \A k \in ConflictsAt(PathOf(field)) :
                /\ Len(out.conflicts[k].examples)
                     = Cardinality(Attributions(item))
                /\ Range(out.conflicts[k].examples)
                     = {Alternative(item, nodeId) :
                          nodeId \in Attributions(item)}
    /\ meta.fieldMap = addNode(NewMetadata, Nodes[10]).fieldMap =>
         out.conflicts
           = <<[path |-> "T.foo",
                examples |-> <<[type |-> "[number,string]",
                                value |-> Arr(<<Whole(5), Str("x")>>)]>>]>>
    /\ meta.fieldMap = addNodes(NewMetadata, <<Nodes[11], Nodes[17]>>).fieldMap =>
         out.conflicts
           = <<[path |-> "T.foo",
                examples |-> <<[type |-> "[number]", value |-> Arr(<<Whole(5)>>)],
                               [type |-> "[string]", value |-> Arr(<<Str("x")>>)]>>]>>

\* { id: '2', foo: [5] } then { id: '3', foo: ['x'] } were added and
\* getExampleObject has reported two alternatives for the items of foo
ItemConflictGroupingDone ==
  /\ meta = addNodes(NewMetadata, <<Nodes[11], Nodes[17]>>)
  /\ out.kind = "example"
  /\ out.reporter
  /\ Len(out.conflicts) = 1
  /\ Len(out.conflicts[1].examples) = 2
  /\ ~Has(out.example, "foo")

\* the three records with an array were added and { id: '1', foo: [5, 'x'] }
\* was deleted: both item types have lost their `first` and are reported
\* as one alternative
ItemConflictUnattributedDone ==
  /\ live[10] = 0
  /\ live[11] = 1
  /\ live[17] = 1
  /\ out.kind = "example"
  /\ out.reporter
  /\ Attributions(meta.fieldMap.val["foo"].val["array"].item) = {""}
  /\ out.conflicts
       = <<[path |-> "T.foo",
            examples |-> <<[type |-> "[number,string]",
                            value |-> Arr(<<Whole(5), Str("x")>>)]>>]>>

\* the type-infos nested under the `props` or the `item` of a type-info
NestedIn(infos, t) == InfosUnder(infos, t[1] \o <<t[2]>>)

\* C18: in every state reached by adds and matching deletes, when an
\* `object` or `array` type-info has total 0, every type-info nested under
\* its props or its item has total 0, and when a `listOfUnion` type-info has
\* total 0, every nodes[id] is 0.
ContainerConsistency ==
  LET infos == TypeInfos(FieldMapOf(meta)) IN
  \A t \in infos :
    t[3].total = 0 =>
      /\ t[2] \in {"object", "array"} =>
           \A u \in NestedIn(infos, t) : u[3].total = 0
      /\ t[2] = "listOfUnion" =>
           \A id \in Range(ObjectKeys(t[3].nodes)) : t[3].nodes.val[id] = 0

\* { foo: { a: 1, b: null } } was added and deleted while no other object
\* is counted: the totals of foo.object and of foo.object.a.int are 0
ContainerConsistencyDone ==
  /\ live[12] = 0
  /\ Has(FieldMapOf(meta), "foo")
  /\ Has(meta.fieldMap.val["foo"], "object")
  /\ meta.fieldMap.val["foo"].val["object"].total = 0
  /\ Has(meta.fieldMap.val["foo"].val["object"].props.val["a"], "int")
  /\ meta.fieldMap.val["foo"].val["object"].props.val["a"].val["int"].total = 0
  /\ meta.fieldMap.val["foo"].val["object"].props.val["a"].val["int"].example
       = Whole(1)

\* how many empty strings a record holds at a position
EmptyOccurrences ==
  [i \in NodeIx |->
     [p \in Positions |->
        Cardinality({k \in DOMAIN ObservationTable[i] :
                       /\ ObservationTable[i][k].position = p[1]
                       /\ ObservationTable[i][k].type = p[2]
                       /\ ObservationTable[i][k].value = Str("")})]]

\* how many empty strings the counted records hold at a position
LiveEmpty(position) ==
  SumUpTo([i \in NodeIx |-> live[i] * EmptyOccurrences[i][<<position, "string">>]],
          Len(Nodes))

\* the `empty` counter of a type-info, 0 when it is unset
EmptyOf(typeInfo) == IF "empty" \in DOMAIN typeInfo THEN typeInfo.empty ELSE 0

\* C19: in every state reached by adds and matching deletes, every `string`
\* type-info has 0 <= empty <= total, an unset `empty` counting as 0, and
\* `empty` is the number of empty strings the counted records hold at the
\* position.
EmptyCounter ==
  \A t \in TypeInfos(FieldMapOf(meta)) :
    t[2] = "string" =>
      /\ 0 <= EmptyOf(t[3])
      /\ EmptyOf(t[3]) <= t[3].total
      /\ EmptyOf(t[3]) = LiveEmpty(t[1])

\* { foo: 'x' } and { foo: '' } are counted: total is 2 and empty is 1
EmptyCounterDone ==
  /\ live[2] = 1
  /\ live[6] = 1
  /\ meta.fieldMap.val["foo"].val["string"].total = 2
  /\ meta.fieldMap.val["foo"].val["string"].empty = 1

\* the step is a call of getExampleObject or of isEmpty
Queried == out' # NoOut

====
